---- MODULE Spec2Model ----
(***************************************************************************)
(* PolicyMatcher: the rule evaluation engine (policy_matcher/rules.py) and *)
(* the candidate-rule registry (policy_matcher/pipeline/registry.py,       *)
(* review.py).                                                             *)
(*                                                                         *)
(* Python values are tagged records [t, v]; a Python str is a sequence of  *)
(* one-character strings, so that str(), substring tests and string        *)
(* ordering are computed rather than assumed.                              *)
(***************************************************************************)
EXTENDS Integers, Sequences, FiniteSets, TLC

\* ------------------------------------------------------------- bounds
\* Longest rule list handed to RuleEngine.evaluate.
MaxRules == 2
\* Longest condition list of one rule in those rule lists.
MaxConds == 2

\* ------------------------------------------------------ Python values
IntV(n) == [t |-> "int", v |-> n]
StrV(s) == [t |-> "str", v |-> s]
BoolV(b) == [t |-> "bool", v |-> b]
ListV(l) == [t |-> "list", v |-> l]
NoneV == [t |-> "none", v |-> 0]

\* The characters used, in code-point order.
Chars == <<"-", ".", "0", "1", "2", "3", "4", "5", "6", "7", "8", "9", "F", "M">>

\* ord(c), up to an order-preserving renumbering.
Ord(c) == CHOOSE i \in 1..Len(Chars) : Chars[i] = c

\* bool is a subclass of int: True == 1, False == 0.
IsNum(a) == a.t \in {"int", "bool"}

Num(a) == IF a.t = "bool" THEN (IF a.v THEN 1 ELSE 0) ELSE a.v

RECURSIVE PyEq(_, _)
\* a == b
PyEq(a, b) ==
    IF IsNum(a) /\ IsNum(b) THEN Num(a) = Num(b)
    ELSE IF a.t = "str" /\ b.t = "str" THEN a.v = b.v
    ELSE IF a.t = "none" /\ b.t = "none" THEN TRUE
    ELSE IF a.t = "list" /\ b.t = "list"
         THEN /\ Len(a.v) = Len(b.v)
              /\ \A k \in 1..Len(a.v) : PyEq(a.v[k], b.v[k])
    ELSE FALSE

RECURSIVE StrCmp(_, _)
\* Lexicographic order of two strings by code point: "LT", "EQ" or "GT".
StrCmp(s, u) ==
    IF s = <<>> /\ u = <<>> THEN "EQ"
    ELSE IF s = <<>> THEN "LT"
    ELSE IF u = <<>> THEN "GT"
    ELSE IF Ord(Head(s)) < Ord(Head(u)) THEN "LT"
    ELSE IF Ord(Head(s)) > Ord(Head(u)) THEN "GT"
    ELSE StrCmp(Tail(s), Tail(u))

RECURSIVE PyCmp(_, _)
\* The rich comparison of a with b: "LT", "EQ", "GT", or "TypeError" when the
\* operand types do not support ordering.  Lists compare by their first
\* unequal pair of elements, then by length.
PyCmp(a, b) ==
    IF IsNum(a) /\ IsNum(b)
    THEN (IF Num(a) < Num(b) THEN "LT" ELSE IF Num(a) > Num(b) THEN "GT" ELSE "EQ")
    ELSE IF a.t = "str" /\ b.t = "str" THEN StrCmp(a.v, b.v)
    ELSE IF a.t = "list" /\ b.t = "list"
         THEN IF a.v = <<>> /\ b.v = <<>> THEN "EQ"
              ELSE IF a.v = <<>> THEN "LT"
              ELSE IF b.v = <<>> THEN "GT"
              ELSE IF PyEq(Head(a.v), Head(b.v))
                   THEN PyCmp(ListV(Tail(a.v)), ListV(Tail(b.v)))
                   ELSE PyCmp(Head(a.v), Head(b.v))
    ELSE "TypeError"

\* a >= b: "True", "False" or "TypeError".
PyGe(a, b) ==
    LET c == PyCmp(a, b)
    IN  IF c = "TypeError" THEN "TypeError"
        ELSE IF c \in {"GT", "EQ"} THEN "True" ELSE "False"

\* a <= b: "True", "False" or "TypeError".
PyLe(a, b) ==
    LET c == PyCmp(a, b)
    IN  IF c = "TypeError" THEN "TypeError"
        ELSE IF c \in {"LT", "EQ"} THEN "True" ELSE "False"

\* s occurs in u as a contiguous run of characters.
IsSubstr(s, u) ==
    \E k \in 0..(Len(u) - Len(s)) : SubSeq(u, k + 1, k + Len(s)) = s

\* x in c: membership in a list, substring in a str (whose left operand must
\* be a str), TypeError for a container that is not iterable.
PyIn(x, c) ==
    IF c.t = "list"
    THEN (IF \E k \in 1..Len(c.v) : PyEq(c.v[k], x) THEN "True" ELSE "False")
    ELSE IF c.t = "str"
         THEN IF x.t = "str"
              THEN (IF IsSubstr(x.v, c.v) THEN "True" ELSE "False")
              ELSE "TypeError"
    ELSE "TypeError"

RECURSIVE Digits(_)
\* The decimal digits of n >= 0.
Digits(n) ==
    IF n < 10 THEN <<Chars[n + 3]>>
    ELSE Digits(n \div 10) \o <<Chars[(n % 10) + 3]>>

\* str(a) for the scalar values a context field can hold (int and str).
PyStr(a) ==
    IF a.t = "str" THEN a
    ELSE IF a.v < 0 THEN StrV(<<"-">> \o Digits(-a.v))
    ELSE StrV(Digits(a.v))

\* ------------------------------------------------------------- inputs
M1711 == <<"M", "1", "7", ".", "1", "1">>
M9999 == <<"M", "9", "9", ".", "9", "9">>

\* PatientContext records.  Every field of the model is present in every
\* patient; the list fields not varied here are empty.
PatientOf(a, g, d) ==
    [age |-> a, gender |-> g, diagnosis_codes |-> d, procedure_codes |-> <<>>,
     prior_treatments |-> <<>>, imaging_reports |-> <<>>, medications |-> <<>>]

Patients ==
    {PatientOf(a, g, d) : a \in {1, 17, 18}, g \in {<<"M">>, <<"F">>},
                          d \in {<<>>, <<M1711>>}}

\* patient.model_dump(): the fact bag keyed by field name.
model_dump(p) ==
    [age |-> IntV(p.age), gender |-> StrV(p.gender),
     diagnosis_codes |-> ListV([k \in 1..Len(p.diagnosis_codes) |-> StrV(p.diagnosis_codes[k])]),
     procedure_codes |-> ListV([k \in 1..Len(p.procedure_codes) |-> StrV(p.procedure_codes[k])]),
     prior_treatments |-> ListV([k \in 1..Len(p.prior_treatments) |-> StrV(p.prior_treatments[k])]),
     imaging_reports |-> ListV([k \in 1..Len(p.imaging_reports) |-> StrV(p.imaging_reports[k])]),
     medications |-> ListV([k \in 1..Len(p.medications) |-> StrV(p.medications[k])])]

KnownOperators == {"equals", "gte", "lte", "one_of", "contains"}

Operators == KnownOperators \cup {"regex"}

Parameters == {"age", "gender", "diagnosis_codes", "manual_review", "diagnosis_code"}

CondValues ==
    {IntV(18), BoolV(TRUE), NoneV,
     StrV(<<"M">>), StrV(<<"7">>), StrV(<<"F", "M">>), StrV(M1711), StrV(M9999),
     ListV(<<StrV(M1711)>>), ListV(<<IntV(17), IntV(18)>>), ListV(<<StrV(<<"M">>), IntV(1)>>)}

\* RuleCondition
Cond(p, o, v) == [parameter |-> p, operator |-> o, value |-> v]

AllConds == {Cond(p, o, v) : p \in Parameters, o \in Operators, v \in CondValues}

\* The conditions used in the longer rule lists: a comparison that passes or
\* fails with the patient, the manual_review sentinel, an absent parameter,
\* an unknown operator and a comparison that raises.
RuleConds ==
    {Cond("age", "gte", IntV(18)),
     Cond("manual_review", "equals", BoolV(TRUE)),
     Cond("diagnosis_code", "contains", StrV(M1711)),
     Cond("age", "regex", IntV(18)),
     Cond("age", "gte", StrV(<<"M">>))}

\* The conditions used in rule lists of several rules: with the two patients
\* of RulePatients they give every condition status.
ListConds ==
    {Cond("age", "gte", IntV(18)),
     Cond("manual_review", "equals", BoolV(TRUE))}

RuleIds == {"R-1", "R-2"}

\* The id of the rule at each position of a list of several rules.
IdAt(k) == <<"R-b", "R-a", "R-d", "R-c">>[k]

\* Rule (the fields evaluate reads)
RuleOf(id, cs, r) == [id |-> id, conditions |-> cs, required |-> r]

SeqsUpTo(S, n) == UNION {[1..k -> S] : k \in 0..n}

\* Every single rule with one condition of AllConds.
SingleCondLists == {<<RuleOf("R-1", <<c>>, TRUE)>> : c \in AllConds}

\* Every single rule of up to MaxConds conditions over RuleConds.
DeepRuleLists ==
    {<<RuleOf(id, cs, r)>> : id \in RuleIds, cs \in SeqsUpTo(RuleConds, MaxConds),
                             r \in BOOLEAN}

\* Every list of n rules whose condition lists are drawn from CondLists.
RuleLists(n, CondLists) ==
    {[k \in 1..n |-> RuleOf(IdAt(k), f[k][1], f[k][2])] :
        f \in [1..n -> CondLists \X BOOLEAN]}

RulePatients == {PatientOf(a, <<"M">>, <<M1711>>) : a \in {17, 18}}

\* ------------------------------------------------- condition evaluator
\* try_compare with an unknown operator failing the condition.
try_compare_UnknownFails(op, actual_value, val) ==
    IF op = "equals" THEN (IF PyEq(actual_value, val) THEN "PASS" ELSE "FAIL")
    ELSE IF op = "gte"
         THEN LET b == PyGe(actual_value, val)
              IN  IF b = "TypeError" THEN "raise" ELSE IF b = "True" THEN "PASS" ELSE "FAIL"
    ELSE IF op = "lte"
         THEN LET b == PyLe(actual_value, val)
              IN  IF b = "TypeError" THEN "raise" ELSE IF b = "True" THEN "PASS" ELSE "FAIL"
    ELSE IF op = "one_of"
         THEN LET b == PyIn(actual_value, val)
              IN  IF b = "TypeError" THEN "raise" ELSE IF b = "True" THEN "PASS" ELSE "FAIL"
    ELSE IF op = "contains"
         THEN LET b == IF actual_value.t = "list" THEN PyIn(val, actual_value)
                       ELSE PyIn(val, PyStr(actual_value))
              IN  IF b = "TypeError" THEN "raise" ELSE IF b = "True" THEN "PASS" ELSE "FAIL"
    ELSE "FAIL"

\* try_compare with gte compared strictly (>).
try_compare_StrictGte(op, actual_value, val) ==
    IF op = "equals" THEN (IF PyEq(actual_value, val) THEN "PASS" ELSE "FAIL")
    ELSE IF op = "gte"
         THEN LET c == PyCmp(actual_value, val)
              IN  IF c = "TypeError" THEN "raise" ELSE IF c = "GT" THEN "PASS" ELSE "FAIL"
    ELSE IF op = "lte"
         THEN LET b == PyLe(actual_value, val)
              IN  IF b = "TypeError" THEN "raise" ELSE IF b = "True" THEN "PASS" ELSE "FAIL"
    ELSE IF op = "one_of"
         THEN LET b == PyIn(actual_value, val)
              IN  IF b = "TypeError" THEN "raise" ELSE IF b = "True" THEN "PASS" ELSE "FAIL"
    ELSE IF op = "contains"
         THEN LET b == IF actual_value.t = "list" THEN PyIn(val, actual_value)
                       ELSE PyIn(val, PyStr(actual_value))
              IN  IF b = "TypeError" THEN "raise" ELSE IF b = "True" THEN "PASS" ELSE "FAIL"
    ELSE "PEND"

\* The body of the try block: the status, or "raise" when a comparison
\* raises.
try_compare(op, actual_value, val) ==
    IF op = "equals" THEN (IF PyEq(actual_value, val) THEN "PASS" ELSE "FAIL")
    ELSE IF op = "gte"
         THEN LET b == PyGe(actual_value, val)
              IN  IF b = "TypeError" THEN "raise" ELSE IF b = "True" THEN "PASS" ELSE "FAIL"
    ELSE IF op = "lte"
         THEN LET b == PyLe(actual_value, val)
              IN  IF b = "TypeError" THEN "raise" ELSE IF b = "True" THEN "PASS" ELSE "FAIL"
    ELSE IF op = "one_of"
         THEN LET b == PyIn(actual_value, val)
              IN  IF b = "TypeError" THEN "raise" ELSE IF b = "True" THEN "PASS" ELSE "FAIL"
    ELSE IF op = "contains"
         THEN LET b == IF actual_value.t = "list" THEN PyIn(val, actual_value)
                       ELSE PyIn(val, PyStr(actual_value))
              IN  IF b = "TypeError" THEN "raise" ELSE IF b = "True" THEN "PASS" ELSE "FAIL"
    ELSE "PEND"

\* evaluate_condition with a parameter absent from the context failing the
\* condition.
evaluate_condition_MissingFails(cond, ctx) ==
    IF cond.parameter = "manual_review" THEN "PEND"
    ELSE IF cond.parameter \notin DOMAIN ctx THEN "FAIL"
    ELSE LET r == try_compare(cond.operator, ctx[cond.parameter], cond.value)
         IN  IF r = "raise" THEN "FAIL" ELSE r

\* evaluate_condition without the except clause: a comparison error leaves
\* the function.
evaluate_condition_Uncaught(cond, ctx) ==
    IF cond.parameter = "manual_review" THEN "PEND"
    ELSE IF cond.parameter \notin DOMAIN ctx THEN "PEND"
    ELSE try_compare(cond.operator, ctx[cond.parameter], cond.value)

\* evaluate_condition(cond, ctx): "PASS", "FAIL" or "PEND"; the except clause
\* turns a comparison error into "FAIL".
evaluate_condition(cond, ctx) ==
    IF cond.parameter = "manual_review" THEN "PEND"
    ELSE IF cond.parameter \notin DOMAIN ctx THEN "PEND"
    ELSE LET r == try_compare(cond.operator, ctx[cond.parameter], cond.value)
         IN  IF r = "raise" THEN "FAIL" ELSE r

\* ------------------------------------------------------------ state
VARIABLES
    rules,          \* evaluate: the rules argument
    patient,        \* evaluate: the patient argument
    pc,             \* evaluate: "rules", "conds", "result", "aggregate", "done",
                    \* or "raised" when an exception leaves evaluate
    i,              \* index of the rule being evaluated (0 before the first)
    j,              \* number of conditions of rule i scanned so far
    rule_status,    \* rule_status of the rule being evaluated
    cond_status,    \* cond_status of the condition evaluated last ("" before)
    results,        \* results
    failed_rules,   \* failed_rules
    missing_info,   \* missing_info
    output,         \* the returned dict (decision "" until the return)
    evaluated,      \* the calls of evaluate_condition so far, as <<i, j>>
    file_exists,    \* the registry file exists at registry_path
    registry,       \* the document in the registry file: [policies, rules]
    store,          \* a RegistryStore has been constructed
    ret,            \* the last registry call: [op, value, saved, rule_uuid]
    rev_pc,         \* review main: "idle", "auto" or "interactive"
    draft_rules,    \* review main: draft_rules
    rev_k,          \* review main: position in draft_rules
    frames,         \* the local variables of every caller's evaluate invocation
    caller,         \* the caller whose invocation is running
    returned,       \* the invocations that returned: [caller, rules, patient, output]
    llm,            \* RuleMiner.llm
    chunks,         \* mine_rules: chunks
    mine_candidates, \* mine_rules: candidates
    extractions,    \* what llm.extract_rule returned for each chunk so far
    uuids,          \* the calls of uuid.uuid4() so far
    mine_pc,        \* the pipeline: "loop", "returned" or "added"
    disk,           \* the bytes of the registry file, as JSON tokens
    procs,          \* the processes that mutate the registry file
    observed,       \* what the last load_registry of a reading process returned
    overlapped      \* a save_registry began while another was under way

engineVars ==
    <<rules, patient, pc, i, j, rule_status, cond_status, results, failed_rules,
      missing_info, output, evaluated>>

registryVars == <<file_exists, registry, store, ret, rev_pc, draft_rules, rev_k>>

callerVars == <<frames, caller, returned>>

minerVars == <<llm, chunks, mine_candidates, extractions, uuids, mine_pc>>

writerVars == <<disk, procs, observed, overlapped>>

vars == <<engineVars, registryVars, callerVars, minerVars, writerVars>>

\* {"policies": {}, "rules": []}
EmptyRegistry == [policies |-> <<>>, rules |-> <<>>]

NoCall == [op |-> "", value |-> <<>>, saved |-> FALSE, rule_uuid |-> ""]

\* No registry file, no store, no review running.
RegistryInit ==
    /\ file_exists = FALSE
    /\ registry = EmptyRegistry
    /\ store = FALSE
    /\ ret = NoCall
    /\ rev_pc = "idle"
    /\ draft_rules = <<>>
    /\ rev_k = 0

\* A single thread of control: no other invocation of evaluate.
NoCallers ==
    /\ frames = <<>>
    /\ caller = 0
    /\ returned = <<>>

\* One process at a time on the registry file.
NoWriters ==
    /\ disk = <<>>
    /\ procs = <<>>
    /\ observed = <<>>
    /\ overlapped = FALSE

\* No pipeline run.
NoMiner ==
    /\ llm = ""
    /\ chunks = <<>>
    /\ mine_candidates = <<>>
    /\ extractions = <<>>
    /\ uuids = 0
    /\ mine_pc = ""

context == model_dump(patient)

NoOutput == [decision |-> "", failed_rules |-> <<>>, all_results |-> <<>>]

\* ------------------------------------------------- RuleEngine.evaluate
Init ==
    /\ \/ rules \in SingleCondLists /\ patient \in Patients
       \/ rules \in DeepRuleLists /\ patient \in RulePatients
       \/ \E n \in 0..MaxRules :
             /\ rules \in RuleLists(n, SeqsUpTo(ListConds, MaxConds))
             /\ patient \in RulePatients
       \/ \E n \in 0..MaxRules :
             /\ rules \in RuleLists(n, {<<c>> : c \in RuleConds})
             /\ patient \in RulePatients
    /\ pc = IF rules = <<>> THEN "aggregate" ELSE "rules"
    /\ i = 0
    /\ j = 0
    /\ rule_status = "PASS"
    /\ cond_status = ""
    /\ results = <<>>
    /\ failed_rules = <<>>
    /\ missing_info = <<>>
    /\ output = NoOutput
    /\ evaluated = <<>>
    /\ RegistryInit
    /\ NoCallers
    /\ NoMiner
    /\ NoWriters

\* for rule in rules: rule_status = "PASS"
BeginRule ==
    /\ pc = "rules"
    /\ i < Len(rules)
    /\ i' = i + 1
    /\ j' = 0
    /\ rule_status' = "PASS"
    /\ pc' = IF rules[i + 1].conditions = <<>> THEN "result" ELSE "conds"
    /\ UNCHANGED <<rules, patient, cond_status, results, failed_rules, missing_info,
                   output, evaluated, registryVars, callerVars, writerVars, minerVars>>

\* EvalCond with rule_status assigned from every condition, so that a PASS
\* after a PEND overwrites it.
EvalCond_LastWins ==
    /\ pc = "conds"
    /\ j < Len(rules[i].conditions)
    /\ LET st == evaluate_condition(rules[i].conditions[j + 1], context)
           last == (j + 1 = Len(rules[i].conditions))
       IN  /\ cond_status' = st
           /\ evaluated' = Append(evaluated, <<i, j + 1>>)
           /\ j' = j + 1
           /\ rule_status' = st
           /\ pc' = IF st = "raise" THEN "raised"
                    ELSE IF st = "FAIL" \/ last THEN "result"
                    ELSE "conds"
    /\ UNCHANGED <<rules, patient, i, results, failed_rules, missing_info, output,
                   registryVars, callerVars, writerVars, minerVars>>

\* EvalCond with the scan of a rule's conditions left at a PEND as well.
EvalCond_PendBreaks ==
    /\ pc = "conds"
    /\ j < Len(rules[i].conditions)
    /\ LET st == evaluate_condition(rules[i].conditions[j + 1], context)
           last == (j + 1 = Len(rules[i].conditions))
       IN  /\ cond_status' = st
           /\ evaluated' = Append(evaluated, <<i, j + 1>>)
           /\ j' = j + 1
           /\ rule_status' = IF st = "FAIL" THEN "FAIL"
                             ELSE IF st = "PEND" THEN "PEND"
                             ELSE rule_status
           /\ pc' = IF st = "raise" THEN "raised"
                    ELSE IF st = "FAIL" \/ st = "PEND" \/ last THEN "result"
                    ELSE "conds"
    /\ UNCHANGED <<rules, patient, i, results, failed_rules, missing_info, output,
                   registryVars, callerVars, writerVars, minerVars>>

\* One pass of `for cond in rule.conditions`: FAIL breaks out of the loop,
\* PEND is recorded and the scan goes on.  evaluate has no handler of its
\* own: an exception that leaves evaluate_condition leaves evaluate.
EvalCond ==
    /\ pc = "conds"
    /\ j < Len(rules[i].conditions)
    /\ LET st == evaluate_condition(rules[i].conditions[j + 1], context)
           last == (j + 1 = Len(rules[i].conditions))
       IN  /\ cond_status' = st
           /\ evaluated' = Append(evaluated, <<i, j + 1>>)
           /\ j' = j + 1
           /\ rule_status' = IF st = "FAIL" THEN "FAIL"
                             ELSE IF st = "PEND" THEN "PEND"
                             ELSE rule_status
           /\ pc' = IF st = "raise" THEN "raised"
                    ELSE IF st = "FAIL" \/ last THEN "result"
                    ELSE "conds"
    /\ UNCHANGED <<rules, patient, i, results, failed_rules, missing_info, output,
                   registryVars, callerVars, writerVars, minerVars>>

\* EvaluationResult(rule_id, status, evidence), score defaulting to 1.0
EvaluationResult(rule_id, status, evidence) ==
    [rule_id |-> rule_id, status |-> status, score |-> 1, evidence |-> evidence]

\* AppendResult with every FAIL rule, required or not, in failed_rules.
AppendResult_AnyFail ==
    /\ pc = "result"
    /\ LET result == EvaluationResult(rules[i].id, rule_status, context)
       IN  /\ results' = Append(results, result)
           /\ failed_rules' = IF rule_status = "FAIL"
                              THEN Append(failed_rules, result)
                              ELSE failed_rules
           /\ missing_info' = IF rule_status = "PEND"
                              THEN Append(missing_info, result)
                              ELSE missing_info
    /\ pc' = IF i = Len(rules) THEN "aggregate" ELSE "rules"
    /\ UNCHANGED <<rules, patient, i, j, rule_status, cond_status, output, evaluated,
                   registryVars, callerVars, writerVars, minerVars>>

\* AppendResult with the result appended to results only in the two
\* branches that record a failure or a pending rule.
AppendResult_OnlyFlagged ==
    /\ pc = "result"
    /\ LET result == EvaluationResult(rules[i].id, rule_status, context)
           failed == rule_status = "FAIL" /\ rules[i].required
           pending == ~failed /\ rule_status = "PEND"
       IN  /\ results' = IF failed \/ pending THEN Append(results, result) ELSE results
           /\ failed_rules' = IF failed THEN Append(failed_rules, result) ELSE failed_rules
           /\ missing_info' = IF pending THEN Append(missing_info, result) ELSE missing_info
    /\ pc' = IF i = Len(rules) THEN "aggregate" ELSE "rules"
    /\ UNCHANGED <<rules, patient, i, j, rule_status, cond_status, output, evaluated,
                   registryVars, callerVars, writerVars, minerVars>>

\* AppendResult with a PEND rule recorded in missing_info only when the rule
\* is required.
AppendResult_PendRequiredOnly ==
    /\ pc = "result"
    /\ LET result == EvaluationResult(rules[i].id, rule_status, context)
           failed == rule_status = "FAIL" /\ rules[i].required
           pending == ~failed /\ rule_status = "PEND" /\ rules[i].required
       IN  /\ results' = Append(results, result)
           /\ failed_rules' = IF failed THEN Append(failed_rules, result) ELSE failed_rules
           /\ missing_info' = IF pending THEN Append(missing_info, result) ELSE missing_info
    /\ pc' = IF i = Len(rules) THEN "aggregate" ELSE "rules"
    /\ UNCHANGED <<rules, patient, i, j, rule_status, cond_status, output, evaluated,
                   registryVars, callerVars, writerVars, minerVars>>

\* AppendResult with the rule loop left at the first required rule that fails.
AppendResult_BreaksOnFail ==
    /\ pc = "result"
    /\ LET result == EvaluationResult(rules[i].id, rule_status, context)
       IN  /\ results' = Append(results, result)
           /\ failed_rules' = IF rule_status = "FAIL" /\ rules[i].required
                              THEN Append(failed_rules, result)
                              ELSE failed_rules
           /\ missing_info' = IF ~(rule_status = "FAIL" /\ rules[i].required)
                                 /\ rule_status = "PEND"
                              THEN Append(missing_info, result)
                              ELSE missing_info
    /\ pc' = IF i = Len(rules) \/ (rule_status = "FAIL" /\ rules[i].required)
             THEN "aggregate" ELSE "rules"
    /\ UNCHANGED <<rules, patient, i, j, rule_status, cond_status, output, evaluated,
                   registryVars, callerVars, writerVars, minerVars>>

\* results.append(result) and the sorting of the result into failed_rules
\* or missing_info.
AppendResult ==
    /\ pc = "result"
    /\ LET result == EvaluationResult(rules[i].id, rule_status, context)
       IN  /\ results' = Append(results, result)
           /\ failed_rules' = IF rule_status = "FAIL" /\ rules[i].required
                              THEN Append(failed_rules, result)
                              ELSE failed_rules
           /\ missing_info' = IF ~(rule_status = "FAIL" /\ rules[i].required)
                                 /\ rule_status = "PEND"
                              THEN Append(missing_info, result)
                              ELSE missing_info
    /\ pc' = IF i = Len(rules) THEN "aggregate" ELSE "rules"
    /\ UNCHANGED <<rules, patient, i, j, rule_status, cond_status, output, evaluated,
                   registryVars, callerVars, writerVars, minerVars>>

\* Aggregate with the failures tested before the pending rules.
Aggregate_DenyFirst ==
    /\ pc = "aggregate"
    /\ LET decision == IF failed_rules = <<>> /\ missing_info = <<>> THEN "APPROVE"
                       ELSE IF failed_rules # <<>> THEN "DENY"
                       ELSE "PEND"
       IN  output' = [decision |-> decision, failed_rules |-> failed_rules,
                      all_results |-> results]
    /\ pc' = "done"
    /\ UNCHANGED <<rules, patient, i, j, rule_status, cond_status, results,
                   failed_rules, missing_info, evaluated, registryVars, callerVars, writerVars, minerVars>>

\* Aggregate with the decision taken from the statuses in results: any FAIL
\* denies, whether or not the rule is required.
Aggregate_AnyFailDenies ==
    /\ pc = "aggregate"
    /\ LET failed == \E k \in 1..Len(results) : results[k].status = "FAIL"
           decision == IF ~failed /\ missing_info = <<>> THEN "APPROVE"
                       ELSE IF missing_info # <<>> THEN "PEND"
                       ELSE "DENY"
       IN  output' = [decision |-> decision, failed_rules |-> failed_rules,
                      all_results |-> results]
    /\ pc' = "done"
    /\ UNCHANGED <<rules, patient, i, j, rule_status, cond_status, results,
                   failed_rules, missing_info, evaluated, registryVars, callerVars,
                   writerVars, minerVars>>

\* Aggregation logic and the return.
Aggregate ==
    /\ pc = "aggregate"
    /\ LET decision == IF failed_rules = <<>> /\ missing_info = <<>> THEN "APPROVE"
                       ELSE IF missing_info # <<>> THEN "PEND"
                       ELSE "DENY"
       IN  output' = [decision |-> decision, failed_rules |-> failed_rules,
                      all_results |-> results]
    /\ pc' = "done"
    /\ UNCHANGED <<rules, patient, i, j, rule_status, cond_status, results,
                   failed_rules, missing_info, evaluated, registryVars, callerVars, writerVars, minerVars>>

Next ==
    \/ BeginRule
    \/ EvalCond
    \/ AppendResult
    \/ Aggregate

Spec == Init /\ [][Next]_vars

\* ------------------------------------- several invocations of evaluate
\* Two callers invoke evaluate on the same Rule and PatientContext objects,
\* the second with the rules in any order, and their steps interleave in
\* every way (one invocation after the other included).  evaluate keeps
\* everything it writes in local variables (rules.py:32-36) and RuleEngine
\* has no attributes, so every invocation has a frame of its own; the
\* engine variables hold the frame of the running caller.
Callers == {1, 2}

\* The lists holding the elements of s in any order.
Reorderings(s) ==
    {[k \in 1..Len(s) |-> s[f[k]]] :
        f \in {g \in [1..Len(s) -> 1..Len(s)] :
                  \A a, b \in 1..Len(s) : g[a] = g[b] => a = b}}

\* The local variables of the running invocation.
Frame ==
    [rules |-> rules, pc |-> pc, i |-> i, j |-> j, rule_status |-> rule_status,
     cond_status |-> cond_status, results |-> results, failed_rules |-> failed_rules,
     missing_info |-> missing_info, output |-> output, evaluated |-> evaluated]

\* The local variables at the entry of evaluate(rs, patient).
AtEntry(rs) ==
    [rules |-> rs, pc |-> IF rs = <<>> THEN "aggregate" ELSE "rules", i |-> 0, j |-> 0,
     rule_status |-> "PASS", cond_status |-> "", results |-> <<>>,
     failed_rules |-> <<>>, missing_info |-> <<>>, output |-> NoOutput,
     evaluated |-> <<>>]

\* The invocation with local variables f runs next.
Resume(f) ==
    /\ rules' = f.rules
    /\ pc' = f.pc
    /\ i' = f.i
    /\ j' = f.j
    /\ rule_status' = f.rule_status
    /\ cond_status' = f.cond_status
    /\ results' = f.results
    /\ failed_rules' = f.failed_rules
    /\ missing_info' = f.missing_info
    /\ output' = f.output
    /\ evaluated' = f.evaluated

InitCallers ==
    /\ \E n \in 0..MaxRules : rules \in RuleLists(n, {<<c>> : c \in ListConds})
    /\ patient \in RulePatients
    /\ pc = IF rules = <<>> THEN "aggregate" ELSE "rules"
    /\ i = 0
    /\ j = 0
    /\ rule_status = "PASS"
    /\ cond_status = ""
    /\ results = <<>>
    /\ failed_rules = <<>>
    /\ missing_info = <<>>
    /\ output = NoOutput
    /\ evaluated = <<>>
    /\ caller = 1
    /\ returned = <<>>
    /\ \E other \in Reorderings(rules) :
          frames = [c \in Callers |-> IF c = 1 THEN AtEntry(rules) ELSE AtEntry(other)]
    /\ RegistryInit
    /\ NoMiner
    /\ NoWriters

\* Switch with results kept in one place for all invocations (an attribute
\* of the engine) rather than in a local variable.
Switch_SharedResults ==
    /\ \E c \in Callers \ {caller} :
          /\ frames' = [frames EXCEPT ![caller] = Frame]
          /\ caller' = c
          /\ Resume([frames[c] EXCEPT !.results = results])
    /\ UNCHANGED <<patient, returned, registryVars, minerVars, writerVars>>

\* The scheduler takes the running caller off and lets another one run.
Switch ==
    /\ \E c \in Callers \ {caller} :
          /\ frames' = [frames EXCEPT ![caller] = Frame]
          /\ caller' = c
          /\ Resume(frames[c])
    /\ UNCHANGED <<patient, returned, registryVars, minerVars, writerVars>>

\* return {...}: the caller has the dict.
Return ==
    /\ pc = "done"
    /\ pc' = "returned"
    /\ returned' = Append(returned, [caller |-> caller, rules |-> rules,
                                     patient |-> patient, output |-> output])
    /\ UNCHANGED <<rules, patient, i, j, rule_status, cond_status, results, failed_rules,
                   missing_info, output, evaluated, frames, caller, registryVars, minerVars,
                   writerVars>>

NextCallers ==
    \/ BeginRule
    \/ EvalCond
    \/ AppendResult
    \/ Aggregate
    \/ Return
    \/ Switch

SpecCallers == InitCallers /\ [][NextCallers]_vars

\* s without its k-th element.
Without(s, k) == [n \in 1..(Len(s) - 1) |-> IF n < k THEN s[n] ELSE s[n + 1]]

\* Two invocations of evaluate on the same patient: one on a list of rules,
\* the other on that list with one rule removed.
InitRemoval ==
    /\ \E n \in 1..MaxRules : rules \in RuleLists(n, {<<c>> : c \in ListConds})
    /\ patient \in RulePatients
    /\ pc = "rules"
    /\ i = 0
    /\ j = 0
    /\ rule_status = "PASS"
    /\ cond_status = ""
    /\ results = <<>>
    /\ failed_rules = <<>>
    /\ missing_info = <<>>
    /\ output = NoOutput
    /\ evaluated = <<>>
    /\ caller = 1
    /\ returned = <<>>
    /\ \E k \in 1..Len(rules) :
          frames = [c \in Callers |-> IF c = 1 THEN AtEntry(rules)
                                      ELSE AtEntry(Without(rules, k))]
    /\ RegistryInit
    /\ NoMiner
    /\ NoWriters

SpecRemoval == InitRemoval /\ [][NextCallers]_vars

\* ====================================================== engine claims
\* The status the claims ascribe to a condition list: FAIL if any condition
\* evaluates to FAIL, else PEND if any evaluates to PEND, else PASS.
RefFold(cs) ==
    LET S == {evaluate_condition(cs[m], context) : m \in 1..Len(cs)}
    IN  IF "FAIL" \in S THEN "FAIL" ELSE IF "PEND" \in S THEN "PEND" ELSE "PASS"

RefStatus(k) == RefFold(rules[k].conditions)

RuleIdx == 1..Len(rules)

\* The statuses of the conditions of rule k, in order.
CondStatuses(k) ==
    [m \in 1..Len(rules[k].conditions) |-> evaluate_condition(rules[k].conditions[m], context)]

\* s and u hold the same elements with the same multiplicities.
IsPermutation(s, u) ==
    /\ Len(s) = Len(u)
    /\ \E f \in [1..Len(s) -> 1..Len(s)] :
          /\ \A a, b \in 1..Len(s) : f[a] = f[b] => a = b
          /\ \A a \in 1..Len(s) : s[a] = u[f[a]]

\* The condition evaluated last (defined once a condition was evaluated).
LastCond ==
    LET e == evaluated[Len(evaluated)] IN rules[e[1]].conditions[e[2]]

\* The state right after the evaluation of condition j of rule i.
JustEvaluated == pc \in {"conds", "result", "raised"} /\ j > 0

\* C1: evaluate returns PEND iff some rule has status PEND (required or
\* not), otherwise DENY iff some required rule has status FAIL, otherwise
\* APPROVE; PEND wins over DENY.
Thm_C1_Decision ==
    pc = "done" =>
        output.decision =
            IF \E k \in RuleIdx : RefStatus(k) = "PEND" THEN "PEND"
            ELSE IF \E k \in RuleIdx : RefStatus(k) = "FAIL" /\ rules[k].required THEN "DENY"
            ELSE "APPROVE"

\* A required FAIL rule beside a non-required PEND rule: the decision is PEND.
Wit_C1_PendOverDeny ==
    /\ pc = "done"
    /\ \E k, l \in RuleIdx :
          /\ RefStatus(k) = "FAIL" /\ rules[k].required
          /\ RefStatus(l) = "PEND" /\ ~rules[l].required
    /\ output.decision = "PEND"

\* C2: when the scan of a rule's conditions ends, the rule status is FAIL if
\* any condition evaluates to FAIL, else PEND if any evaluates to PEND, else
\* PASS (PASS for no conditions); two rules whose condition lists are
\* permutations of each other get the same status.
Thm_C2_Dominance ==
    /\ pc = "result" => rule_status = RefFold(rules[i].conditions)
    /\ pc = "done" =>
          \A k, l \in RuleIdx :
              IsPermutation(rules[k].conditions, rules[l].conditions)
                  => output.all_results[k].status = output.all_results[l].status

\* One rule with conditions [PEND, FAIL], another with the same conditions
\* as [FAIL, PEND]: both FAIL.
Wit_C2_BothOrders ==
    /\ pc = "done"
    /\ Len(rules) = 2
    /\ CondStatuses(1) = <<"PEND", "FAIL">>
    /\ CondStatuses(2) = <<"FAIL", "PEND">>
    /\ rules[1].conditions[1] = rules[2].conditions[2]
    /\ rules[1].conditions[2] = rules[2].conditions[1]
    /\ output.all_results[1].status = "FAIL"
    /\ output.all_results[2].status = "FAIL"

RECURSIVE RefFailed(_)
\* The results of the required FAIL rules among the first k rules, in order.
RefFailed(k) ==
    IF k = 0 THEN <<>>
    ELSE IF RefStatus(k) = "FAIL" /\ rules[k].required
         THEN Append(RefFailed(k - 1), EvaluationResult(rules[k].id, "FAIL", context))
         ELSE RefFailed(k - 1)

\* C3: failed_rules holds exactly the results of the rules that are FAIL and
\* required, in input order, whatever the decision.
Thm_C3_FailedRules ==
    pc = "done" => output.failed_rules = RefFailed(Len(rules))

\* A non-required FAIL rule followed by a required FAIL rule: only the
\* second is in failed_rules.
Wit_C3_NonRequiredDropped ==
    /\ pc = "done"
    /\ Len(rules) = 2
    /\ RefStatus(1) = "FAIL" /\ ~rules[1].required
    /\ RefStatus(2) = "FAIL" /\ rules[2].required
    /\ Len(output.failed_rules) = 1
    /\ output.failed_rules[1].rule_id = rules[2].id

\* C4: all_results has one result per input rule, in input order, with that
\* rule's id and folded status.
Thm_C4_AllResults ==
    pc = "done" =>
        /\ Len(output.all_results) = Len(rules)
        /\ \A k \in RuleIdx :
              /\ output.all_results[k].rule_id = rules[k].id
              /\ output.all_results[k].status = RefStatus(k)

\* A PASS rule and a non-required FAIL rule, decision APPROVE: both results
\* are returned.
Wit_C4_AllKept ==
    /\ pc = "done"
    /\ Len(rules) = 2
    /\ RefStatus(1) = "PASS"
    /\ RefStatus(2) = "FAIL" /\ ~rules[2].required
    /\ output.decision = "APPROVE"
    /\ Len(output.all_results) = 2

\* C5: a condition on the manual_review sentinel, or on a parameter that is
\* no field of the context, evaluates to PEND for every operator and value.
Thm_C5_MissingData ==
    evaluated # <<>> =>
        (LastCond.parameter = "manual_review" \/ LastCond.parameter \notin DOMAIN context
            => cond_status = "PEND")

\* A rule of the sentinel condition followed by an absent parameter under an
\* unknown operator: both were evaluated and the rule is PEND.
Wit_C5_SentinelAndAbsent ==
    /\ pc = "done"
    /\ Len(rules) = 2
    /\ rules[1].conditions = <<Cond("manual_review", "equals", BoolV(TRUE))>>
    /\ rules[2].conditions = <<Cond("diagnosis_code", "contains", StrV(M1711))>>
    /\ evaluated = << <<1, 1>>, <<2, 1>> >>
    /\ output.all_results[1].status = "PEND"
    /\ output.all_results[2].status = "PEND"

\* C6: with the parameter present, an operator outside the five known ones
\* evaluates to PEND, and the scan goes on with the next condition (or ends
\* the rule normally after the last one).
Thm_C6_UnknownOperator ==
    (evaluated # <<>> /\ LastCond.parameter \in DOMAIN context
        /\ LastCond.operator \notin {"equals", "gte", "lte", "one_of", "contains"})
    => /\ cond_status = "PEND"
       /\ JustEvaluated =>
             pc = IF j < Len(rules[i].conditions) THEN "conds" ELSE "result"

\* An unknown operator first, a failing comparison second: the second
\* condition was evaluated and decides the rule.
Wit_C6_ScanGoesOn ==
    /\ pc = "done"
    /\ Len(rules) = 1
    /\ rules[1].conditions = <<Cond("age", "regex", IntV(18)), Cond("age", "gte", IntV(18))>>
    /\ patient.age = 17
    /\ evaluated = << <<1, 1>>, <<1, 2>> >>
    /\ output.all_results[1].status = "FAIL"

\* The comparison of condition c raises: gte/lte of unordered operands,
\* one_of with a value that does not support membership of the actual value,
\* contains with a non-string value against a scalar field.
RefRaises(c) ==
    /\ c.parameter # "manual_review"
    /\ c.parameter \in DOMAIN context
    /\ LET a == context[c.parameter]
       IN  \/ c.operator \in {"gte", "lte"} /\ PyCmp(a, c.value) = "TypeError"
           \/ c.operator = "one_of" /\ PyIn(a, c.value) = "TypeError"
           \/ c.operator = "contains" /\ a.t # "list" /\ c.value.t # "str"

\* C7: a comparison that raises makes the condition FAIL; the error never
\* leaves evaluate, the rule ends as FAIL and every rule still gets its
\* result.
Thm_C7_ComparisonError ==
    /\ pc # "raised"
    /\ (evaluated # <<>> /\ RefRaises(LastCond)) =>
          /\ cond_status = "FAIL"
          /\ JustEvaluated => pc = "result" /\ rule_status = "FAIL"
    /\ (pc = "done" /\ \E k \in RuleIdx : \E m \in 1..Len(rules[k].conditions) :
                          RefRaises(rules[k].conditions[m]))
          => Len(output.all_results) = Len(rules)

\* age >= "M" raises in the first rule; the second rule is still evaluated.
Wit_C7_NextRuleEvaluated ==
    /\ pc = "done"
    /\ Len(rules) = 2
    /\ rules[1].conditions = <<Cond("age", "gte", StrV(<<"M">>))>>
    /\ rules[2].conditions = <<Cond("age", "gte", IntV(18))>>
    /\ patient.age = 18
    /\ output.all_results[1].status = "FAIL"
    /\ output.all_results[2].status = "PASS"

\* The reference of C8 for a comparison that does not raise.
RefHolds(c) ==
    LET a == context[c.parameter]
        v == c.value
    IN  IF c.operator = "equals" THEN PyEq(a, v)
        ELSE IF c.operator = "gte" THEN PyCmp(a, v) \in {"GT", "EQ"}
        ELSE IF c.operator = "lte" THEN PyCmp(a, v) \in {"LT", "EQ"}
        ELSE IF c.operator = "one_of" THEN PyIn(a, v) = "True"
        ELSE IF a.t = "list" THEN \E k \in 1..Len(a.v) : PyEq(a.v[k], v)
        ELSE IsSubstr(v.v, PyStr(a).v)

\* C8: with the parameter present, a known operator and no comparison error,
\* the condition is PASS exactly when the reference comparison holds and FAIL
\* otherwise; age >= 18 passes from 18 on, and contains on a list field is
\* element membership.
Thm_C8_Reference ==
    evaluated # <<>> =>
        /\ (/\ LastCond.parameter # "manual_review"
            /\ LastCond.parameter \in DOMAIN context
            /\ LastCond.operator \in {"equals", "gte", "lte", "one_of", "contains"}
            /\ ~RefRaises(LastCond))
           => cond_status = IF RefHolds(LastCond) THEN "PASS" ELSE "FAIL"
        /\ LastCond = Cond("age", "gte", IntV(18))
           => cond_status = IF patient.age >= 18 THEN "PASS" ELSE "FAIL"
        /\ LastCond = Cond("age", "lte", IntV(18))
           => cond_status = IF patient.age <= 18 THEN "PASS" ELSE "FAIL"
        /\ LastCond = Cond("age", "equals", IntV(18))
           => cond_status = IF patient.age = 18 THEN "PASS" ELSE "FAIL"
        /\ LastCond = Cond("age", "contains", StrV(<<"7">>))
           => cond_status = IF patient.age = 17 THEN "PASS" ELSE "FAIL"
        /\ LastCond = Cond("gender", "one_of", ListV(<<StrV(<<"M">>), IntV(1)>>))
           => cond_status = IF patient.gender = <<"M">> THEN "PASS" ELSE "FAIL"
        /\ LastCond \in {Cond("diagnosis_codes", "contains", StrV(M1711)),
                         Cond("diagnosis_codes", "contains", StrV(M9999)),
                         Cond("diagnosis_codes", "contains", StrV(<<"7">>))}
           => cond_status = IF \E k \in 1..Len(patient.diagnosis_codes) :
                                   patient.diagnosis_codes[k] = LastCond.value.v
                            THEN "PASS" ELSE "FAIL"

\* The boundary of gte: age 18 against 18 passes.
Wit_C8_GteBoundary ==
    /\ evaluated # <<>>
    /\ LastCond = Cond("age", "gte", IntV(18))
    /\ patient.age = 18
    /\ cond_status = "PASS"

\* C9 as stated: a rule holding a condition that resolves to PEND has status
\* PEND, and the decision is then neither APPROVE nor DENY.
Orig_C9_PendNeverMasked ==
    pc = "done" =>
        \A k \in RuleIdx :
            (\E m \in 1..Len(rules[k].conditions) : CondStatuses(k)[m] = "PEND")
            => /\ output.all_results[k].status = "PEND"
               /\ output.decision \notin {"APPROVE", "DENY"}

\* C9, amended: a rule holding a condition that resolves to PEND and no
\* condition that resolves to FAIL has status PEND, and the decision is PEND.
Thm_C9_PendUnlessFail ==
    pc = "done" =>
        \A k \in RuleIdx :
            (/\ \E m \in 1..Len(rules[k].conditions) : CondStatuses(k)[m] = "PEND"
             /\ \A m \in 1..Len(rules[k].conditions) : CondStatuses(k)[m] # "FAIL")
            => /\ output.all_results[k].status = "PEND"
               /\ output.decision = "PEND"

\* A non-required rule with conditions [PEND, PASS] beside a PASS rule: the
\* rule is PEND and so is the decision.
Wit_C9_PendKept ==
    /\ pc = "done"
    /\ Len(rules) = 2
    /\ CondStatuses(1) = <<"PEND", "PASS">> /\ ~rules[1].required
    /\ RefStatus(2) = "PASS"
    /\ output.all_results[1].status = "PEND"
    /\ output.decision = "PEND"

\* The invocations a and b of the log were given the same rules in the same
\* order and the same patient.
SameInputs(a, b) == a.rules = b.rules /\ a.patient = b.patient

\* C17: evaluate is a pure, deterministic function of (rules, patient): no
\* step of an invocation modifies the patient or the rules of any
\* invocation, and however the steps of the invocations interleave, all
\* invocations on the same inputs return the same decision, failed_rules
\* and all_results.
Thm_C17_Pure ==
    [][/\ patient' = patient
       /\ caller' = caller => rules' = rules
       /\ \A c \in Callers : frames'[c].rules = frames[c].rules
       /\ \A a, b \in 1..Len(returned') :
             SameInputs(returned'[a], returned'[b])
                 => returned'[a].output = returned'[b].output]_vars

\* Both callers have returned from evaluate on the same two rules, the
\* second caller first.
Wit_C17_BothReturned ==
    /\ Len(returned) = 2
    /\ returned[1].caller = 2
    /\ returned[2].caller = 1
    /\ Len(returned[1].rules) = 2
    /\ SameInputs(returned[1], returned[2])
    /\ returned[1].output.decision = "PEND"

\* The rule ids in the failed_rules of a returned dict.
FailedIds(o) == {o.failed_rules[k].rule_id : k \in 1..Len(o.failed_rules)}

\* The status of every rule id in the all_results of a returned dict.
StatusById(o) ==
    {<<o.all_results[k].rule_id, o.all_results[k].status>> : k \in 1..Len(o.all_results)}

\* C18: no ordering requirement across rules: two invocations on the same
\* rules in different orders return the same decision, the same status for
\* every rule and the same set of rule ids in failed_rules, and the status of
\* every rule is the fold of its own conditions, whatever the other rules.
Thm_C18_RuleOrder ==
    \A a, b \in 1..Len(returned) :
        LET x == returned[a]
            y == returned[b]
        IN  (IsPermutation(x.rules, y.rules) /\ x.patient = y.patient)
            => /\ x.output.decision = y.output.decision
               /\ FailedIds(x.output) = FailedIds(y.output)
               /\ StatusById(x.output) = StatusById(y.output)
               /\ StatusById(x.output)
                     = {<<x.rules[k].id, RefFold(x.rules[k].conditions)>> :
                           k \in 1..Len(x.rules)}

\* The two callers have returned from lists that hold a failing required
\* rule and a pending rule in opposite orders.
Wit_C18_SwappedRules ==
    /\ Len(returned) = 2
    /\ Len(returned[1].rules) = 2
    /\ returned[1].rules[1] = returned[2].rules[2]
    /\ returned[1].rules[2] = returned[2].rules[1]
    /\ returned[1].rules[1].required
    /\ FailedIds(returned[1].output) = {returned[1].rules[1].id}
    /\ returned[1].output.all_results[2].status = "PEND"
    /\ returned[2].output.all_results[1].status = "PEND"

\* The number of conditions of rule k the scan is to evaluate: up to and
\* including the first one that evaluates to FAIL, all of them if none does.
ScanLen(k) ==
    LET F == {m \in 1..Len(rules[k].conditions) : CondStatuses(k)[m] = "FAIL"}
    IN  IF F = {} THEN Len(rules[k].conditions)
        ELSE CHOOSE m \in F : \A n \in F : m <= n

RECURSIVE ScanLog(_)

\* The evaluations of the first n rules: rule by rule, each rule's
\* conditions in declaration order, each once.
ScanLog(n) ==
    IF n = 0 THEN <<>>
    ELSE ScanLog(n - 1) \o [m \in 1..ScanLen(n) |-> <<n, m>>]

\* C21: within a rule the conditions are evaluated in declaration order, a
\* FAIL ends the scan of the rule and a PEND does not: at every step the
\* evaluations made so far are the beginning of, and at the return they are
\* exactly, the conditions of every rule up to and including its first FAIL
\* (all of them if none fails), each evaluated once.
Thm_C21_ScanOrder ==
    /\ Len(evaluated) <= Len(ScanLog(Len(rules)))
    /\ evaluated = SubSeq(ScanLog(Len(rules)), 1, Len(evaluated))
    /\ pc = "done" => evaluated = ScanLog(Len(rules))
    /\ pc = "result" => j = ScanLen(i)

\* evaluate returned after one rule whose first condition was PEND and whose
\* second was evaluated, and another whose first condition was FAIL and
\* whose second was not evaluated.
Wit_C21_PendGoesOnFailStops ==
    /\ pc = "done"
    /\ \E k \in RuleIdx :
          /\ Len(rules[k].conditions) = 2
          /\ CondStatuses(k)[1] = "PEND"
          /\ \E n \in 1..Len(evaluated) : evaluated[n] = <<k, 2>>
    /\ \E k \in RuleIdx :
          /\ Len(rules[k].conditions) = 2
          /\ CondStatuses(k)[1] = "FAIL"
          /\ \A n \in 1..Len(evaluated) : evaluated[n] # <<k, 2>>

\* Rule k of the returned invocation x is not required and has status FAIL.
OptionalFail(x, k) ==
    ~x.rules[k].required /\ x.output.all_results[k].status = "FAIL"

\* C25: the FAIL of a rule that is not required never influences the
\* decision: an invocation on the rules without such a rule returns the same
\* decision and the same failed_rules; and when every failing rule is not
\* required and no rule is PEND, the decision is APPROVE and failed_rules is
\* empty.
Thm_C25_OptionalFail ==
    /\ \A a, b \in 1..Len(returned) :
          LET x == returned[a]
              y == returned[b]
          IN  \A k \in 1..Len(x.rules) :
                  (/\ OptionalFail(x, k)
                   /\ y.rules = Without(x.rules, k)
                   /\ y.patient = x.patient)
                      => /\ y.output.decision = x.output.decision
                         /\ y.output.failed_rules = x.output.failed_rules
    /\ \A a \in 1..Len(returned) :
          LET x == returned[a]
          IN  (\A k \in 1..Len(x.rules) :
                  /\ x.output.all_results[k].status # "PEND"
                  /\ x.output.all_results[k].status = "FAIL" => ~x.rules[k].required)
                  => /\ x.output.decision = "APPROVE"
                     /\ x.output.failed_rules = <<>>

\* Both invocations returned APPROVE with no failed_rules: one on two
\* failing rules that are not required, the other on the first of them alone.
Wit_C25_FailRemoved ==
    /\ Len(returned) = 2
    /\ \E a, b \in 1..2 :
          /\ Len(returned[a].rules) = 2
          /\ OptionalFail(returned[a], 1)
          /\ OptionalFail(returned[a], 2)
          /\ returned[b].rules = Without(returned[a].rules, 2)
          /\ returned[b].output.all_results[1].status = "FAIL"
          /\ returned[a].output.decision = "APPROVE"
          /\ returned[b].output.decision = "APPROVE"
          /\ returned[a].output.failed_rules = <<>>

\* ============================================================ registry
\* Most candidates the registry file holds.
MaxCands == 2
\* Most candidates handed to one add_candidates call.
MaxBatch == 2

\* Rule, with every field
Rule(id, type, conditions, description, required, parent_policy_id) ==
    [id |-> id, type |-> type, conditions |-> conditions, description |-> description,
     required |-> required, parent_policy_id |-> parent_policy_id]

\* CandidateRule; confidence is in hundredths.
CandidateRule(id, source_chunk_id, status, rule_data) ==
    [id |-> id, source_chunk_id |-> source_chunk_id, source_text |-> "text",
     confidence |-> 75, status |-> status, rule_data |-> rule_data]

MinedConditions == <<Cond("age", "gte", IntV(18))>>

Unknown == StrV(<<"U", "N", "K", "N", "O", "W", "N">>)

\* The candidates handed to add_candidates (a batch may hold the same one
\* twice, so that two stored candidates share an id): a DRAFT one as mined,
\* and one that is already APPROVED, has no parent policy yet, and whose
\* embedded Rule's id is the id of the other candidate.
CandidatePool ==
    {CandidateRule("c1", "chunk-1", "DRAFT",
                   Rule("R-1", "Eligibility", MinedConditions, "d", TRUE, Unknown)),
     CandidateRule("c2", "chunk-2", "APPROVED",
                   Rule("c1", "Exclusion", MinedConditions, "d", TRUE, NoneV))}

PolicyIds == {StrV(<<"P", "1">>), StrV(<<"P", "2">>)}

\* The policy_id arguments of get_approved_rules: an id, None, the empty string.
PolicyArgs == PolicyIds \cup {NoneV, StrV(<<>>)}

CandidateIds == {"c1", "c2", "c9"}

Statuses == {"DRAFT", "APPROVED", "REJECTED", "ARCHIVED"}

NewLogic == StrV(<<"a", "g", "e", ">", "=", "2", "1">>)

\* A corrected condition list handed over as the third argument.
NewConditions == ListV(<<Cond("age", "gte", IntV(21))>>)

\* The new_logic arguments: None, the empty string, an expression, a
\* condition list (the parameter is not type-checked).
NewLogics == {NoneV, StrV(<<>>), NewLogic, NewConditions}

\* bool(a) of None, a str or a list
Truthy(a) == a.t # "none" /\ a.v # <<>>

\* json.loads(c.model_dump_json()): the dict of a CandidateRule.
to_dict(c) ==
    [id |-> c.id, source_chunk_id |-> c.source_chunk_id, source_text |-> c.source_text,
     confidence |-> c.confidence, status |-> c.status,
     rule_data |-> [id |-> c.rule_data.id, type |-> c.rule_data.type,
                    conditions |-> c.rule_data.conditions,
                    description |-> c.rule_data.description,
                    required |-> c.rule_data.required,
                    parent_policy_id |-> c.rule_data.parent_policy_id]]

\* add_candidates that leaves parent_policy_id as mined.
add_candidates_ParentKept(data, candidates, policy_id) ==
    LET policies == IF policy_id.v \in DOMAIN data.policies
                    THEN data.policies
                    ELSE (policy_id.v :> [id |-> policy_id, status |-> "INGESTED"])
                             @@ data.policies
        appended == [k \in 1..Len(candidates) |-> to_dict(candidates[k])]
    IN  [policies |-> policies, rules |-> data.rules \o appended]

\* add_candidates(candidates, policy_id) on the loaded document: the document
\* it saves.
add_candidates(data, candidates, policy_id) ==
    LET policies == IF policy_id.v \in DOMAIN data.policies
                    THEN data.policies
                    ELSE (policy_id.v :> [id |-> policy_id, status |-> "INGESTED"])
                             @@ data.policies
        appended == [k \in 1..Len(candidates) |->
                        to_dict([candidates[k] EXCEPT !.rule_data.parent_policy_id = policy_id])]
    IN  [policies |-> policies, rules |-> data.rules \o appended]

\* get_rules_by_status(status) on the loaded document.
get_rules_by_status(data, status) ==
    SelectSeq(data.rules, LAMBDA r : r.status = status)

\* The index of the first candidate whose own id is rule_uuid, 0 if none.
first_match(data, rule_uuid) ==
    IF \E k \in 1..Len(data.rules) : data.rules[k].id = rule_uuid
    THEN CHOOSE k \in 1..Len(data.rules) :
            /\ data.rules[k].id = rule_uuid
            /\ \A l \in 1..(k - 1) : data.rules[l].id # rule_uuid
    ELSE 0

\* update_rule_status that saves the document whether or not the id was found.
update_rule_status_AlwaysSaves(data, rule_uuid, status, new_logic) ==
    LET k == first_match(data, rule_uuid)
        r == data.rules[k]
        rule_data == IF Truthy(new_logic)
                     THEN ("logic_expression" :> new_logic) @@ r.rule_data
                     ELSE r.rule_data
    IN  IF k = 0
        THEN [data |-> data, updated |-> TRUE]
        ELSE [data |-> [data EXCEPT !.rules[k] =
                           [r EXCEPT !.status = status, !.rule_data = rule_data]],
              updated |-> TRUE]

\* update_rule_status without the break: every candidate whose own id is
\* rule_uuid is updated.
update_rule_status_EveryMatch(data, rule_uuid, status, new_logic) ==
    LET hit(r) == r.id = rule_uuid
        rule_data(r) == IF Truthy(new_logic)
                        THEN ("logic_expression" :> new_logic) @@ r.rule_data
                        ELSE r.rule_data
    IN  [data |-> [data EXCEPT !.rules =
                      [k \in 1..Len(data.rules) |->
                          IF hit(data.rules[k])
                          THEN [data.rules[k] EXCEPT !.status = status,
                                                     !.rule_data = rule_data(data.rules[k])]
                          ELSE data.rules[k]]],
         updated |-> \E k \in 1..Len(data.rules) : hit(data.rules[k])]

\* update_rule_status(rule_uuid, status, new_logic) on the loaded document:
\* the document after the loop, and whether it is saved.
update_rule_status(data, rule_uuid, status, new_logic) ==
    LET k == first_match(data, rule_uuid)
        r == data.rules[k]
        rule_data == IF Truthy(new_logic)
                     THEN ("logic_expression" :> new_logic) @@ r.rule_data
                     ELSE r.rule_data
    IN  IF k = 0
        THEN [data |-> data, updated |-> FALSE]
        ELSE [data |-> [data EXCEPT !.rules[k] =
                           [r EXCEPT !.status = status, !.rule_data = rule_data]],
              updated |-> TRUE]

\* Rule(**rule_data): the Rule of a stored dict; keys that are no field of
\* Rule are ignored.
RuleFromDict(d) ==
    Rule(d.id, d.type, d.conditions, d.description, d.required, d.parent_policy_id)

RECURSIVE approved_from(_, _, _)
\* The loop of get_approved_rules from candidate k on.
approved_from(data, policy_id, k) ==
    IF k > Len(data.rules) THEN <<>>
    ELSE LET r_dict == data.rules[k]
             skip == \/ r_dict.status # "APPROVED"
                     \/ /\ Truthy(policy_id)
                        /\ ~PyEq(r_dict.rule_data.parent_policy_id, policy_id)
         IN  IF skip THEN approved_from(data, policy_id, k + 1)
             ELSE <<RuleFromDict(r_dict.rule_data)>> \o approved_from(data, policy_id, k + 1)

\* get_approved_rules without the policy filter.
get_approved_rules_Unfiltered(data, policy_id) == approved_from(data, NoneV, 1)

\* get_approved_rules(policy_id) on the loaded document.
get_approved_rules(data, policy_id) == approved_from(data, policy_id, 1)

\* RegistryStore() that writes an empty registry whether or not the file is
\* there.
Construct_Truncates ==
    /\ rev_pc = "idle"
    /\ store' = TRUE
    /\ file_exists' = TRUE
    /\ registry' = EmptyRegistry
    /\ ret' = [op |-> "RegistryStore", value |-> <<>>, saved |-> TRUE, rule_uuid |-> ""]
    /\ UNCHANGED <<engineVars, callerVars, writerVars, minerVars, rev_pc, draft_rules, rev_k>>

\* RegistryStore(): _ensure_registry writes an empty registry if the file is
\* missing.
Construct ==
    /\ rev_pc = "idle"
    /\ store' = TRUE
    /\ file_exists' = TRUE
    /\ registry' = IF file_exists THEN registry ELSE EmptyRegistry
    /\ ret' = [op |-> "RegistryStore", value |-> <<>>, saved |-> ~file_exists,
            rule_uuid |-> ""]
    /\ UNCHANGED <<engineVars, callerVars, writerVars, minerVars, rev_pc, draft_rules, rev_k>>

\* registry.add_candidates(candidates, policy_id)
AddCandidates ==
    /\ rev_pc = "idle"
    /\ store
    /\ \E n \in 0..MaxBatch : \E candidates \in [1..n -> CandidatePool] :
       \E policy_id \in PolicyIds :
          /\ Len(registry.rules) + n <= MaxCands
          /\ registry' = add_candidates(registry, candidates, policy_id)
    /\ ret' = [op |-> "add_candidates", value |-> <<>>, saved |-> TRUE,
            rule_uuid |-> ""]
    /\ UNCHANGED <<engineVars, callerVars, writerVars, minerVars, file_exists, store, rev_pc,
                   draft_rules, rev_k>>

\* registry.update_rule_status(rule_uuid, status, new_logic)
UpdateRuleStatus ==
    /\ rev_pc = "idle"
    /\ store
    /\ \E rule_uuid \in CandidateIds : \E status \in Statuses : \E new_logic \in NewLogics :
          LET u == update_rule_status(registry, rule_uuid, status, new_logic)
          IN  /\ registry' = IF u.updated THEN u.data ELSE registry
              /\ ret' = [op |-> "update_rule_status", value |-> <<>>, saved |-> u.updated,
                      rule_uuid |-> rule_uuid]
    /\ UNCHANGED <<engineVars, callerVars, writerVars, minerVars, file_exists, store, rev_pc,
                   draft_rules, rev_k>>

\* registry.get_rules_by_status(status)
GetRulesByStatus ==
    /\ rev_pc = "idle"
    /\ store
    /\ \E status \in Statuses :
          ret' = [op |-> "get_rules_by_status",
                  value |-> get_rules_by_status(registry, status), saved |-> FALSE,
                          rule_uuid |-> ""]
    /\ UNCHANGED <<engineVars, callerVars, writerVars, minerVars, file_exists, registry, store,
                   rev_pc, draft_rules, rev_k>>

\* registry.get_approved_rules(policy_id)
GetApprovedRules ==
    /\ rev_pc = "idle"
    /\ store
    /\ \E policy_id \in PolicyArgs :
          ret' = [op |-> "get_approved_rules",
                  value |-> get_approved_rules(registry, policy_id), saved |-> FALSE,
                          rule_uuid |-> ""]
    /\ UNCHANGED <<engineVars, callerVars, writerVars, minerVars, file_exists, registry, store,
                   rev_pc, draft_rules, rev_k>>

\* --------------------------------------------------------- review main
\* The review has ended (or ended in an error): back at the shell.
ReviewEnds ==
    /\ rev_pc' = "idle"
    /\ draft_rules' = <<>>
    /\ rev_k' = 0

\* main up to the review loops: RegistryStore(), the DRAFT candidates, and
\* the return when there are none.
ReviewStart ==
    /\ rev_pc = "idle"
    /\ store' = TRUE
    /\ file_exists' = TRUE
    /\ registry' = IF file_exists THEN registry ELSE EmptyRegistry
    /\ LET drafts == get_rules_by_status(registry', "DRAFT")
       IN  /\ ret' = [op |-> "get_rules_by_status", value |-> drafts, saved |-> FALSE,
               rule_uuid |-> ""]
           /\ IF drafts = <<>>
              THEN ReviewEnds
              ELSE /\ \E auto_approve \in BOOLEAN :
                         rev_pc' = IF auto_approve THEN "auto" ELSE "interactive"
                   /\ draft_rules' = drafts
                   /\ rev_k' = 1
    /\ UNCHANGED <<engineVars, callerVars, writerVars, minerVars>>

\* The step of the review loops to the next draft rule, or out of main.
ReviewAdvance ==
    IF rev_k = Len(draft_rules)
    THEN ReviewEnds
    ELSE /\ rev_k' = rev_k + 1
         /\ UNCHANGED <<rev_pc, draft_rules>>

\* A registry.update_rule_status call of main.
ReviewUpdate(rule_uuid, status, new_logic) ==
    LET u == update_rule_status(registry, rule_uuid, status, new_logic)
    IN  /\ registry' = IF u.updated THEN u.data ELSE registry
        /\ ret' = [op |-> "update_rule_status", value |-> <<>>, saved |-> u.updated,
                rule_uuid |-> rule_uuid]

\* --auto-approve: one pass of `for rule in draft_rules`.
ReviewAuto ==
    /\ rev_pc = "auto"
    /\ ReviewUpdate(draft_rules[rev_k].id, "APPROVED", NoneV)
    /\ ReviewAdvance
    /\ UNCHANGED <<engineVars, callerVars, writerVars, minerVars, file_exists, store>>

\* One pass of the interactive loop: printing rule_data['logic_expression']
\* raises KeyError for a candidate without that key and main ends; otherwise
\* the reviewer approves, rejects, edits or skips (an invalid choice asks
\* again and changes nothing).
ReviewInteractive ==
    /\ rev_pc = "interactive"
    /\ LET rule == draft_rules[rev_k]
       IN  \/ /\ "logic_expression" \notin DOMAIN rule.rule_data
              /\ ReviewEnds
              /\ ret' = [op |-> "KeyError", value |-> <<>>, saved |-> FALSE,
                      rule_uuid |-> ""]
              /\ UNCHANGED registry
           \/ /\ "logic_expression" \in DOMAIN rule.rule_data
              /\ \/ ReviewUpdate(rule.id, "APPROVED", NoneV)
                 \/ ReviewUpdate(rule.id, "REJECTED", NoneV)
                 \/ \E new_logic \in {StrV(<<>>), NewLogic} :
                       ReviewUpdate(rule.id, "APPROVED", new_logic)
                 \/ UNCHANGED <<registry, ret>>
              /\ ReviewAdvance
    /\ UNCHANGED <<engineVars, callerVars, writerVars, minerVars, file_exists, store>>

\* ------------------------------------------------ registry specification
\* No evaluation running.
EngineIdle ==
    /\ rules = <<>>
    /\ patient = PatientOf(18, <<"M">>, <<>>)
    /\ pc = "done"
    /\ i = 0
    /\ j = 0
    /\ rule_status = "PASS"
    /\ cond_status = ""
    /\ results = <<>>
    /\ failed_rules = <<>>
    /\ missing_info = <<>>
    /\ output = NoOutput
    /\ evaluated = <<>>

InitRegistry == EngineIdle /\ RegistryInit /\ NoCallers /\ NoMiner /\ NoWriters

NextRegistry ==
    \/ Construct
    \/ AddCandidates
    \/ UpdateRuleStatus
    \/ GetRulesByStatus
    \/ GetApprovedRules
    \/ ReviewStart
    \/ ReviewAuto
    \/ ReviewInteractive

SpecRegistry == InitRegistry /\ [][NextRegistry]_vars

\* ======================================================= rule mining
\* Most chunks handed to one mine_rules call.
MaxChunks == 2

\* text[:100]
DescLen == 100

\* text[:50]
FailedLen == 50

\* Chunk texts: "21 years of age or older", "diagnosis of M17.11" and
\* "prior therapy".
TextAge ==
    <<"2", "1", " ", "y", "e", "a", "r", "s", " ", "o", "f", " ", "a", "g",
      "e", " ", "o", "r", " ", "o", "l", "d", "e", "r">>

TextDiagnosis ==
    <<"d", "i", "a", "g", "n", "o", "s", "i", "s", " ", "o", "f", " ", "M",
      "1", "7", ".", "1", "1">>

TextPlain ==
    <<"p", "r", "i", "o", "r", " ", "t", "h", "e", "r", "a", "p", "y">>

Texts == {TextAge, TextDiagnosis, TextPlain}

YearsOfAgeOrOlder ==
    <<"y", "e", "a", "r", "s", " ", "o", "f", " ", "a", "g", "e", " ", "o",
      "r", " ", "o", "l", "d", "e", "r">>

DiagnosisOf ==
    <<"d", "i", "a", "g", "n", "o", "s", "i", "s", " ", "o", "f">>

Years == <<"y", "e", "a", "r", "s">>

Dots == <<".", ".", ".">>

ExtractionFailed ==
    <<"E", "x", "t", "r", "a", "c", "t", "i", "o", "n", " ", "f", "a", "i",
      "l", "e", "d", ":", " ">>

\* A dict with str keys: the keys it has and the value of each of them.
Dict(keys, rule_type, conditions, description) ==
    [none |-> FALSE, keys |-> keys, rule_type |-> rule_type, conditions |-> conditions,
     description |-> description]

\* {}
EmptyDict == Dict({}, "", <<>>, <<>>)

\* None
NoneResult == [EmptyDict EXCEPT !.none = TRUE]

\* d.get(key, default)
Get(d, key, default) == IF key \in d.keys THEN d[key] ELSE default

\* text[:n]
Truncated(text, n) == SubSeq(text, 1, IF Len(text) < n THEN Len(text) ELSE n)

IsDigit(c) == c \in {Chars[n + 3] : n \in 0..9}

RECURSIVE ParseInt(_)
\* int(s) of a run of digits
ParseInt(s) ==
    IF s = <<>> THEN 0
    ELSE 10 * ParseInt(SubSeq(s, 1, Len(s) - 1))
            + (CHOOSE n \in 0..9 : Chars[n + 3] = s[Len(s)])

\* re.search(r"(\d+)\s+years", text): the matches <<a, b>> of the group, a
\* run of digits text[a..b] followed by spaces and "years".
YearsMatches(text) ==
    {m \in (1..Len(text)) \X (1..Len(text)) :
        /\ m[1] <= m[2]
        /\ \A k \in m[1]..m[2] : IsDigit(text[k])
        /\ \E e \in (m[2] + 2)..(Len(text) - 4) :
              /\ \A k \in (m[2] + 1)..(e - 1) : text[k] = " "
              /\ SubSeq(text, e, e + 4) = Years}

\* The group of the leftmost match (the digits are matched greedily).
YearsGroup(text) ==
    LET M == YearsMatches(text)
        m == CHOOSE x \in M : \A y \in M : x[1] < y[1] \/ (x[1] = y[1] /\ x[2] >= y[2])
    IN  SubSeq(text, m[1], m[2])

ManualReview == Cond("manual_review", "equals", BoolV(TRUE))

\* MockLLM.extract_rule(text)
MockLLM_extract_rule(text) ==
    LET age == IF IsSubstr(YearsOfAgeOrOlder, text) /\ YearsMatches(text) # {}
               THEN <<Cond("age", "gte", IntV(ParseInt(YearsGroup(text))))>>
               ELSE <<>>
        diagnosis == IF IsSubstr(DiagnosisOf, text)
                     THEN <<Cond("diagnosis_code", "manual_review",
                                 StrV(<<"T", "B", "D">>))>>
                     ELSE <<>>
        conditions == IF age \o diagnosis = <<>> THEN <<ManualReview>>
                      ELSE age \o diagnosis
    IN  Dict({"rule_type", "conditions", "description"}, "Eligibility", conditions,
             IF Len(text) > DescLen THEN Truncated(text, DescLen) \o Dots ELSE text)

\* The JSON documents the chat completion answers with: an extraction, an
\* object without conditions, the empty object, null.
Responses(text) ==
    {Dict({"rule_type", "conditions", "description"}, "Medical Necessity",
          <<Cond("age", "gte", IntV(21))>>, text),
     Dict({"rule_type"}, "Exclusions", <<>>, <<>>),
     EmptyDict,
     NoneResult}

\* The LLMInterface implementations a RuleMiner is given: MockLLM, OpenAILLM
\* without and with a client, HuggingFaceLLM whose model did not load.
LLMs == {"MockLLM", "OpenAILLM(client=None)", "OpenAILLM", "HuggingFaceLLM(pipe=None)"}

\* self.llm.extract_rule(text): the values the call can return.
extract_rule(l, text) ==
    IF l = "MockLLM" THEN {MockLLM_extract_rule(text)}
    ELSE IF l = "OpenAILLM(client=None)"
         THEN {[Dict({"error"}, "", <<>>, <<>>) EXCEPT !.keys = {"error"}]}
    ELSE IF l = "OpenAILLM"
         THEN Responses(text)
                 \cup {Dict({"rule_type", "conditions", "description"}, "Eligibility",
                             <<ManualReview>>,
                             ExtractionFailed \o Truncated(text, FailedLen) \o Dots)}
    ELSE {EmptyDict}

\* `not extraction`
Falsy(extraction) == extraction.none \/ extraction.keys = {}

\* The metadata of a chunk: none, one without rule_type, one with it.
Metadatas ==
    {NoneResult, Dict({"type"}, "", <<>>, <<>>), Dict({"type", "rule_type"}, "Exclusions", <<>>, <<>>)}

ChunkId(k) == <<"rule_1", "rule_2", "rule_3", "rule_4">>[k]

\* The chunk lists of n chunks.
ChunkLists(n) ==
    {[k \in 1..n |-> [id |-> ChunkId(k), text |-> f[k][1], metadata |-> f[k][2]]] :
        f \in [1..n -> Texts \X Metadatas]}

\* chunk.get("metadata", {}).get("rule_type", "Eligibility")
default_rule_type(chunk) ==
    IF chunk.metadata.none THEN "Eligibility"
    ELSE Get(chunk.metadata, "rule_type", "Eligibility")

\* The candidate mine_rules makes of a chunk and its extraction; Rule(...) is
\* built first and takes the uuid n + 1, the candidate's id the next one.
mine_candidate(chunk, returned_extraction, n) ==
    LET text == chunk.text
        extraction == IF Falsy(returned_extraction)
                      THEN Dict({"rule_type", "conditions", "description"},
                                default_rule_type(chunk), <<ManualReview>>,
                                Truncated(text, DescLen) \o Dots)
                      ELSE returned_extraction
        rule_data == Rule(<<"R-", n + 1>>,
                          Get(extraction, "rule_type", default_rule_type(chunk)),
                          Get(extraction, "conditions", <<>>),
                          Get(extraction, "description", Truncated(text, DescLen) \o Dots),
                          TRUE, Unknown)
    IN  [CandidateRule(n + 2, chunk.id, "DRAFT", rule_data) EXCEPT !.source_text = text]

\* The pipeline run starts: a RuleMiner with its llm, and the chunks.
InitMining ==
    /\ EngineIdle
    /\ RegistryInit
    /\ NoCallers
    /\ NoWriters
    /\ llm \in LLMs
    /\ \E n \in 0..MaxChunks : chunks \in ChunkLists(n)
    /\ mine_candidates = <<>>
    /\ extractions = <<>>
    /\ uuids = 0
    /\ mine_pc = "loop"

\* MineChunk with a chunk whose extraction is empty passed over.
MineChunk_SkipsEmpty ==
    /\ mine_pc = "loop"
    /\ Len(extractions) < Len(chunks)
    /\ LET chunk == chunks[Len(extractions) + 1]
       IN  \E extraction \in extract_rule(llm, chunk.text) :
              /\ extractions' = Append(extractions, extraction)
              /\ mine_candidates' =
                    IF Falsy(extraction) THEN mine_candidates
                    ELSE Append(mine_candidates, mine_candidate(chunk, extraction, uuids))
    /\ uuids' = uuids + 2
    /\ UNCHANGED <<engineVars, registryVars, callerVars, writerVars, llm, chunks, mine_pc>>

\* One pass of `for chunk in chunks`.
MineChunk ==
    /\ mine_pc = "loop"
    /\ Len(extractions) < Len(chunks)
    /\ LET chunk == chunks[Len(extractions) + 1]
       IN  \E extraction \in extract_rule(llm, chunk.text) :
              /\ extractions' = Append(extractions, extraction)
              /\ mine_candidates' =
                    Append(mine_candidates, mine_candidate(chunk, extraction, uuids))
    /\ uuids' = uuids + 2
    /\ UNCHANGED <<engineVars, registryVars, callerVars, writerVars, llm, chunks, mine_pc>>

\* return candidates
MineReturn ==
    /\ mine_pc = "loop"
    /\ Len(extractions) = Len(chunks)
    /\ mine_pc' = "returned"
    /\ UNCHANGED <<engineVars, registryVars, callerVars, writerVars, llm, chunks, mine_candidates,
                   extractions, uuids>>

\* run_pipeline: registry = RegistryStore();
\* registry.add_candidates(candidates, policy_id)
PipelineAdd ==
    /\ mine_pc = "returned"
    /\ mine_pc' = "added"
    /\ store' = TRUE
    /\ file_exists' = TRUE
    /\ \E policy_id \in PolicyIds :
          registry' = add_candidates(IF file_exists THEN registry ELSE EmptyRegistry,
                                     mine_candidates, policy_id)
    /\ ret' = [op |-> "add_candidates", value |-> <<>>, saved |-> TRUE, rule_uuid |-> ""]
    /\ UNCHANGED <<engineVars, callerVars, writerVars, rev_pc, draft_rules, rev_k, llm, chunks,
                   mine_candidates, extractions, uuids>>

NextMining ==
    \/ MineChunk
    \/ MineReturn
    \/ PipelineAdd

SpecMining == InitMining /\ [][NextMining]_vars

\* ============================================ the registry file on disk
\* The processes that mutate the registry file.
Writers == {1, 2}

\* One token of the JSON text of a registry document.
Token(k, v) == [k |-> k, v |-> v]

\* A part of the file that was never written (the offset of a write lies
\* behind the end of the file).
Hole == Token("hole", <<>>)

\* json.dump(data, f, indent=2): the text of the document.
dump(data) ==
    <<Token("{", <<>>), Token("policies", data.policies)>>
        \o [n \in 1..Len(data.rules) |-> Token("rule", data.rules[n])]
        \o <<Token("}", <<>>)>>

\* The text is the text of one whole document.
WellFormed(f) ==
    /\ Len(f) >= 3
    /\ f[1].k = "{"
    /\ f[2].k = "policies"
    /\ \A n \in 3..(Len(f) - 1) : f[n].k = "rule"
    /\ f[Len(f)].k = "}"

\* load_registry(): json.load(f) of the file's text; JSONDecodeError on a
\* text that is not one whole document.
load_registry(f) ==
    IF WellFormed(f)
    THEN [read |-> TRUE, error |-> FALSE,
          data |-> [policies |-> f[2].v,
                    rules |-> [n \in 1..(Len(f) - 3) |-> f[n + 2].v]]]
    ELSE [read |-> TRUE, error |-> TRUE, data |-> EmptyRegistry]

\* No load_registry of the reading process yet.
NotRead == [read |-> FALSE, error |-> FALSE, data |-> EmptyRegistry]

\* f.write of the n tokens of buf behind pos, at offset pos of the file.
write(f, buf, pos, n) ==
    LET end == IF Len(f) > pos + n THEN Len(f) ELSE pos + n
    IN  [k \in 1..end |-> IF k > pos /\ k <= pos + n THEN buf[k]
                          ELSE IF k <= Len(f) THEN f[k]
                          ELSE Hole]

\* A mutating call and its arguments.
Op(name, candidates, policy_id, rule_uuid, status, new_logic) ==
    [name |-> name, candidates |-> candidates, policy_id |-> policy_id,
     rule_uuid |-> rule_uuid, status |-> status, new_logic |-> new_logic]

NoOp == Op("", <<>>, NoneV, "", "", NoneV)

\* The candidate the processes add: a DRAFT one as mined.
Mined ==
    CandidateRule("c1", "chunk-1", "DRAFT",
                  Rule("R-1", "Eligibility", MinedConditions, "d", TRUE, Unknown))

\* add_candidates(candidates, policy_id) calls
AddOps ==
    {Op("add_candidates", [k \in 1..n |-> Mined], policy_id, "", "", NoneV) :
        n \in 0..MaxBatch, policy_id \in PolicyIds}

\* update_rule_status(rule_uuid, status, new_logic) calls
UpdateOps ==
    {Op("update_rule_status", <<>>, NoneV, rule_uuid, "APPROVED", new_logic) :
        rule_uuid \in {"c1", "c9"}, new_logic \in {NoneV, NewLogic}}

\* The registry documents in the file when the processes start.
StoredRegistries ==
    {EmptyRegistry, add_candidates(EmptyRegistry, <<Mined>>, StrV(<<"P", "1">>))}

\* The in-memory part of a mutating call on the loaded document: the
\* document it hands to save_registry, and whether it does.
mutate(op, data) ==
    IF op.name = "add_candidates"
    THEN [data |-> add_candidates(data, op.candidates, op.policy_id), updated |-> TRUE]
    ELSE update_rule_status(data, op.rule_uuid, op.status, op.new_logic)

\* A process before its call, or no process.
Proc(op) ==
    [op |-> op, pc |-> IF op = NoOp THEN "idle" ELSE "start",
     data |-> EmptyRegistry, out |-> EmptyRegistry, pos |-> 0]

InitWriters ==
    /\ EngineIdle
    /\ RegistryInit
    /\ NoCallers
    /\ NoMiner
    /\ \E data \in StoredRegistries : disk = dump(data)
    /\ \E op1 \in AddOps \cup UpdateOps : \E op2 \in {NoOp} \cup AddOps \cup UpdateOps :
          procs = [w \in Writers |-> Proc(IF w = 1 THEN op1 ELSE op2)]
    /\ observed = NotRead
    /\ overlapped = FALSE

\* data = self.load_registry() and the changes made to data in memory; an
\* update_rule_status that found nothing returns without saving.
Load(w) ==
    /\ procs[w].pc = "start"
    /\ LET loaded == load_registry(disk)
           m == mutate(procs[w].op, loaded.data)
       IN  procs' = [procs EXCEPT ![w] =
                       IF loaded.error THEN [@ EXCEPT !.pc = "error"]
                       ELSE [@ EXCEPT !.pc = IF m.updated THEN "loaded" ELSE "done",
                                      !.data = loaded.data,
                                      !.out = m.data]]
    /\ UNCHANGED <<engineVars, registryVars, callerVars, minerVars, disk, observed,
                   overlapped>>

\* save_registry that loads the file again and makes its changes on what
\* the file holds now.
SaveOpen_Reloads(w) ==
    /\ procs[w].pc = "loaded"
    /\ LET loaded == load_registry(disk)
       IN  procs' = [procs EXCEPT ![w] =
                       [@ EXCEPT !.pc = "opened", !.pos = 0,
                                 !.out = IF loaded.error THEN @
                                         ELSE mutate(procs[w].op, loaded.data).data]]
    /\ disk' = <<>>
    /\ overlapped' = (overlapped \/ \E v \in Writers \ {w} : procs[v].pc = "opened")
    /\ UNCHANGED <<engineVars, registryVars, callerVars, minerVars, observed>>

\* save_registry: open(self.registry_path, 'w') truncates the file.
SaveOpen(w) ==
    /\ procs[w].pc = "loaded"
    /\ procs' = [procs EXCEPT ![w] = [@ EXCEPT !.pc = "opened", !.pos = 0]]
    /\ disk' = <<>>
    /\ overlapped' = (overlapped \/ \E v \in Writers \ {w} : procs[v].pc = "opened")
    /\ UNCHANGED <<engineVars, registryVars, callerVars, minerVars, observed>>

\* save_registry: json.dump writes the text through the file's buffer, which
\* hands it to the file in one or in several writes; the file is closed
\* after the last one.
SaveWrite(w) ==
    /\ procs[w].pc = "opened"
    /\ LET buf == dump(procs[w].out)
       IN  \E n \in 1..(Len(buf) - procs[w].pos) :
              /\ disk' = write(disk, buf, procs[w].pos, n)
              /\ procs' = [procs EXCEPT ![w] =
                             [@ EXCEPT !.pos = @ + n,
                                       !.pc = IF procs[w].pos + n = Len(buf)
                                              THEN "done" ELSE "opened"]]
    /\ UNCHANGED <<engineVars, registryVars, callerVars, minerVars, observed, overlapped>>

\* load_registry() of a process that only reads (get_rules_by_status,
\* get_approved_rules).
Read ==
    /\ observed' = load_registry(disk)
    /\ UNCHANGED <<engineVars, registryVars, callerVars, minerVars, disk, procs,
                   overlapped>>

NextWriters ==
    \/ \E w \in Writers : Load(w)
    \/ \E w \in Writers : SaveOpen(w)
    \/ \E w \in Writers : SaveWrite(w)
    \/ Read

SpecWriters == InitWriters /\ [][NextWriters]_vars

\* ===================================================== registry claims
\* C10: APPROVED and REJECTED are terminal candidate states: once a
\* candidate's status is APPROVED or REJECTED, no step of any registry
\* operation changes it (the claim's "only DRAFT to APPROVED and DRAFT to
\* REJECTED" implies this).
Orig_C10_TerminalStatuses ==
    [][\A k \in 1..Len(registry.rules) :
          registry.rules[k].status \in {"APPROVED", "REJECTED"}
              => registry'.rules[k].status = registry.rules[k].status]_vars

\* C11: in every reachable state of the registry, every stored candidate's
\* status is one of DRAFT, APPROVED, REJECTED.
Orig_C11_StatusDomain ==
    \A k \in 1..Len(registry.rules) :
        registry.rules[k].status \in {"DRAFT", "APPROVED", "REJECTED"}

\* C12: update_rule_status(id, APPROVED, C) with a condition list C supplied,
\* on a DRAFT candidate added for policy P, replaces the embedded Rule's
\* conditions: get_approved_rules(P) then returns a Rule for that candidate
\* whose conditions equal C.
Orig_C12_ConditionsReplaced ==
    [][\A rule_uuid \in CandidateIds : \A P \in PolicyIds :
          LET k == first_match(registry, rule_uuid)
              approved == get_approved_rules(registry', P)
          IN  (/\ k # 0
               /\ registry.rules[k].status = "DRAFT"
               /\ PyEq(registry.rules[k].rule_data.parent_policy_id, P)
               /\ ret'.op = "update_rule_status"
               /\ registry' = update_rule_status(registry, rule_uuid, "APPROVED",
                                                 NewConditions).data)
              => \E n \in 1..Len(approved) :
                    /\ approved[n].id = registry.rules[k].rule_data.id
                    /\ approved[n].conditions = NewConditions.v]_vars

\* The Rule equal to a stored rule_data: its Rule fields, unchanged.
StoredRule(rule_data) ==
    [f \in {"id", "type", "conditions", "description", "required", "parent_policy_id"}
        |-> rule_data[f]]

\* The Rules C13 says are returned when the policy filter is applied or not:
\* one per APPROVED candidate (of that policy), in registry order.
ApprovedOf(data, policy_id, filtered) ==
    LET sel == SelectSeq(data.rules,
                         LAMBDA r : /\ r.status = "APPROVED"
                                    /\ filtered
                                          => PyEq(r.rule_data.parent_policy_id, policy_id))
    IN  [n \in 1..Len(sel) |-> StoredRule(sel[n].rule_data)]

\* A get_approved_rules call has just returned.
ApprovedReturned ==
    /\ ret.op = "get_approved_rules"
    /\ \E policy_id \in PolicyArgs : ret.value = get_approved_rules(registry, policy_id)

\* C13: get_approved_rules(policy_id) returns, in registry order, exactly one
\* Rule equal to the stored rule_data for each APPROVED candidate and, when a
\* policy_id is supplied (is not None), only for those whose parent_policy_id
\* equals it; no other Rule is returned.
Orig_C13_ApprovedFilter ==
    \A policy_id \in PolicyArgs :
        get_approved_rules(registry, policy_id)
            = ApprovedOf(registry, policy_id, policy_id.t # "none")

\* C13, amended: the policy filter applies when policy_id is a non-empty
\* string; with None or the empty string every APPROVED candidate's Rule is
\* returned.  The value a get_approved_rules call leaves is that list.
Thm_C13_ApprovedFilter ==
    /\ \A policy_id \in PolicyArgs :
           get_approved_rules(registry, policy_id)
               = ApprovedOf(registry, policy_id, Truthy(policy_id))
    /\ ret.op = "get_approved_rules" => ApprovedReturned

\* Two APPROVED candidates of different policies are stored and a call
\* with a policy id has returned the Rule of one of them only.
Wit_C13_OnePolicyOnly ==
    /\ ApprovedReturned
    /\ Len(registry.rules) = 2
    /\ \A k \in 1..2 : registry.rules[k].status = "APPROVED"
    /\ ~PyEq(registry.rules[1].rule_data.parent_policy_id,
             registry.rules[2].rule_data.parent_policy_id)
    /\ Len(ret.value) = 1
    /\ ret.value[1] = StoredRule(registry.rules[2].rule_data)

\* What C14 says of a step from document `old` to document `new` made by
\* add_candidates(candidates, policy_id).
AddedTo(old, new, candidates, policy_id) ==
    LET n == Len(candidates)
        m == Len(old.rules)
        drafts == get_rules_by_status(new, "DRAFT")
    IN  /\ Len(new.rules) = m + n
        /\ \A k \in 1..m : new.rules[k] = old.rules[k]
        /\ \A k \in 1..n :
              LET c == candidates[k]
                  r == new.rules[m + k]
              IN  /\ r.id = c.id
                  /\ r.status = c.status
                  /\ r.source_chunk_id = c.source_chunk_id
                  /\ r.source_text = c.source_text
                  /\ r.confidence = c.confidence
                  /\ r.rule_data.parent_policy_id = policy_id
                  /\ \A f \in {"id", "type", "conditions", "description", "required"} :
                        r.rule_data[f] = c.rule_data[f]
                  /\ c.status = "DRAFT" => \E d \in 1..Len(drafts) : drafts[d] = r
        /\ DOMAIN new.policies = DOMAIN old.policies \cup {policy_id.v}
        /\ \A key \in DOMAIN old.policies : new.policies[key] = old.policies[key]
        /\ new.policies[policy_id.v].id = policy_id

Thm_C15_AppendOnly ==
    [][/\ (~file_exists /\ file_exists') => registry' = EmptyRegistry
       /\ Len(registry'.rules) >= Len(registry.rules)
       /\ \A k \in 1..Len(registry.rules) :
             /\ registry'.rules[k].id = registry.rules[k].id
             /\ registry'.rules[k].source_chunk_id = registry.rules[k].source_chunk_id
             /\ registry'.rules[k].rule_data.id = registry.rules[k].rule_data.id
       /\ \A key \in DOMAIN registry.policies :
             /\ key \in DOMAIN registry'.policies
             /\ registry'.policies[key] = registry.policies[key]]_vars

\* RegistryStore() has been constructed again on the existing path of a
\* registry that holds two candidates, one of them updated in place.
Wit_C15_Reopened ==
    /\ ret.op = "RegistryStore"
    /\ ~ret.saved
    /\ Len(registry.rules) = 2
    /\ registry.rules[1].id = "c1"
    /\ registry.rules[1].status = "REJECTED"
    /\ registry.rules[2].id = "c2"

\* C16: an update_rule_status call whose id matches no stored candidate's
\* own id leaves the registry document unchanged and performs no write; the
\* call returns normally.
Thm_C16_LookupMiss ==
    [][(/\ ret'.op = "update_rule_status"
        /\ \A k \in 1..Len(registry.rules) : registry.rules[k].id # ret'.rule_uuid)
       => /\ registry' = registry
          /\ ~ret'.saved
          /\ file_exists' = file_exists]_vars

\* update_rule_status("c1", ...) has returned without a write on a registry
\* whose only candidate has another id but an embedded Rule with id "c1".
Wit_C16_EmbeddedIdMisses ==
    /\ ret.op = "update_rule_status"
    /\ ret.rule_uuid = "c1"
    /\ ~ret.saved
    /\ Len(registry.rules) = 1
    /\ registry.rules[1].id = "c2"
    /\ registry.rules[1].rule_data.id = "c1"

\* Some stored candidate has c as its own id.
Holds(data, c) == \E k \in 1..Len(data.rules) : data.rules[k].id = c

\* The first candidate of old whose own id is c has status s in new, and
\* every other candidate, the order and the policies are those of old.
OnlyFirstTouched(old, new, c, s) ==
    LET k == CHOOSE n \in 1..Len(old.rules) :
                 /\ old.rules[n].id = c
                 /\ \A m \in 1..(n - 1) : old.rules[m].id # c
    IN  /\ new.policies = old.policies
        /\ Len(new.rules) = Len(old.rules)
        /\ \A m \in 1..Len(old.rules) : m # k => new.rules[m] = old.rules[m]
        /\ new.rules[k].status = s
        /\ \A f \in {"id", "source_chunk_id", "source_text", "confidence"} :
              new.rules[k][f] = old.rules[k][f]

\* C22: update_rule_status(c, s) on a registry holding a candidate whose own
\* id is c sets the status of the first such candidate to s and changes
\* nothing else: every other candidate (one whose embedded Rule id is c, a
\* later one with the same own id), the order of the candidates and the
\* policies are unchanged; without a new_logic argument the candidate itself
\* differs in its status only.
Thm_C22_OnlyStatus ==
    \A c \in CandidateIds : \A s \in Statuses : \A new_logic \in NewLogics :
        Holds(registry, c)
            => LET u == update_rule_status(registry, c, s, new_logic)
               IN  /\ u.updated
                   /\ OnlyFirstTouched(registry, u.data, c, s)
                   /\ new_logic = NoneV
                         => u.data = [registry EXCEPT
                                         !.rules[first_match(registry, c)].status = s]

\* update_rule_status("c1", "REJECTED") has been saved on a registry whose
\* first candidate has another own id and "c1" as its embedded Rule id: the
\* second candidate is REJECTED, the first is as it was added.
Wit_C22_EmbeddedIdKept ==
    /\ ret.op = "update_rule_status"
    /\ ret.saved
    /\ ret.rule_uuid = "c1"
    /\ Len(registry.rules) = 2
    /\ registry.rules[1].id = "c2"
    /\ registry.rules[1].rule_data.id = "c1"
    /\ registry.rules[1].status = "APPROVED"
    /\ registry.rules[2].id = "c1"
    /\ registry.rules[2].status = "REJECTED"

\* ================================================= registry file claims
\* Process 1 is the only one that mutates the registry file.
SingleWriter == procs # <<>> /\ procs[2].pc = "idle"

\* The document in the file before the call of process 1.
Before == IF procs[1].pc = "start" THEN load_registry(disk).data ELSE procs[1].data

\* The document in the file after the call of process 1.
After == mutate(procs[1].op, Before).data

\* C23: every registry mutation (add_candidates of any batch, a successful
\* update_rule_status) is one whole-document unit: with a single writer, what
\* a reader of the persisted registry observes is the complete state before
\* the mutation or the complete state after it, never anything else.
Orig_C23_WholeDocument ==
    (SingleWriter /\ observed.read)
        => /\ ~observed.error
           /\ observed.data \in {Before, After}

\* Both calls have returned, neither with an exception.
BothDone == procs # <<>> /\ \A w \in Writers : procs[w].pc = "done"

\* The call of process w changes the document it loaded: it appends a
\* candidate, or it sets a status the candidate does not have yet.
Effective(w) ==
    LET op == procs[w].op
        data == procs[w].data
    IN  IF op.name = "add_candidates" THEN op.candidates # <<>>
        ELSE /\ Holds(data, op.rule_uuid)
             /\ data.rules[first_match(data, op.rule_uuid)].status # op.status

\* The number of candidates the calls of the processes append.
Appended ==
    LET n(w) == IF procs[w].op.name = "add_candidates"
                THEN Len(procs[w].op.candidates) ELSE 0
    IN  n(1) + n(2)

\* final holds what both calls did to data: every appended candidate and
\* every status set.
AllKept(data, final) ==
    /\ Len(final.rules) = Len(data.rules) + Appended
    /\ \A w \in Writers :
          procs[w].op.name = "update_rule_status"
              => final.rules[first_match(data, procs[w].op.rule_uuid)].status
                     = procs[w].op.status

\* C24: with two callers whose load_registry and save_registry steps
\* interleave (add_candidates against add_candidates or update_rule_status),
\* an update is lost: whenever both calls loaded the same document, saved one
\* after the other and returned without error, the file holds the document
\* of one of them, which lacks the candidates appended or the status set by
\* the other.
Thm_C24_LostUpdate ==
    (/\ BothDone
     /\ ~overlapped
     /\ procs[1].data = procs[2].data
     /\ Effective(1) /\ Effective(2)
     /\ \E w \in Writers : procs[w].op.name = "add_candidates")
        => LET final == load_registry(disk)
           IN  /\ ~final.error
               /\ final.data \in {procs[w].out : w \in Writers}
               /\ ~AllKept(procs[1].data, final.data)

\* add_candidates of one candidate and update_rule_status("c1", "APPROVED")
\* both loaded the registry holding the DRAFT candidate c1 and both returned;
\* the file holds the two candidates and c1 is still DRAFT.
Wit_C24_StatusLost ==
    /\ BothDone
    /\ ~overlapped
    /\ procs[1].op.name = "add_candidates"
    /\ procs[2].op.name = "update_rule_status"
    /\ procs[2].op.rule_uuid = "c1"
    /\ procs[1].data = procs[2].data
    /\ Len(procs[1].data.rules) = 1
    /\ LET final == load_registry(disk)
       IN  /\ ~final.error
           /\ Len(final.data.rules) = 2
           /\ final.data.rules[1].status = "DRAFT"

\* ======================================================= mining claims
\* What C19 says of the list mine_rules returns, with the parent_policy_id
\* the embedded Rules are to have.
OnePerChunk(parent_policy_id) ==
    /\ Len(mine_candidates) = Len(chunks)
    /\ \A k \in 1..Len(mine_candidates) :
          /\ mine_candidates[k].status = "DRAFT"
          /\ mine_candidates[k].source_chunk_id = chunks[k].id
          /\ mine_candidates[k].source_text = chunks[k].text
          /\ mine_candidates[k].rule_data.parent_policy_id = parent_policy_id

NoConditions(extraction) == Falsy(extraction) \/ "conditions" \notin extraction.keys

\* C20: for every chunk whose extraction is empty, absent or a failure result
\* carrying no conditions, the candidate's Rule has exactly one condition,
\* on manual_review, and the chunk's default category as its type; the Rule
\* evaluates to PEND.
Orig_C20_Fallback ==
    \A k \in 1..Len(mine_candidates) :
        NoConditions(extractions[k])
            => LET rule == mine_candidates[k].rule_data
               IN  /\ Len(rule.conditions) = 1
                   /\ rule.conditions[1].parameter = "manual_review"
                   /\ rule.type = default_rule_type(chunks[k])
                   /\ RefFold(rule.conditions) = "PEND"

====
